---- MODULE Spec2Model ----
(***************************************************************************)
(* The task store of xai-tasks (src/tasks_components.py): one SQLite table *)
(* `tasks` and the ten components that open it, write it, read it and      *)
(* close it.  Python values are modelled as follows:                       *)
(*   - a str held in a TEXT column (task_id, summary, details) is a TLA+   *)
(*     string;                                                             *)
(*   - a character is its code point (ord), a Python str passed inside     *)
(*     conversation/steps is a sequence of code points, and such a list is *)
(*     a sequence of these; json.dumps and json.loads are modelled         *)
(*     character by character on lists of strs;                            *)
(*   - the JSON text held in the conversation/steps columns is a sequence  *)
(*     of code points;                                                     *)
(*   - an optional value is <<>> (None) or <<v>> (the value v).            *)
(* SQLite's file locking (rollback-journal mode) and sqlite3's implicit    *)
(* BEGIN before INSERT/UPDATE/DELETE are modelled per connection.          *)
(***************************************************************************)
EXTENDS Integers, Sequences, FiniteSets, TLC

\* Bounds of the model.
MaxId == 2        \* cap on the AUTOINCREMENT counter: successful inserts per run
MaxConns == 2     \* cap on the number of TasksOpenDB calls per run
MaxListLen == 2   \* longest list drawn for the JSON round trip
MaxStrLen == 2    \* longest string drawn for the JSON round trip

VARIABLES
    tasks,            \* the committed rows of table `tasks`, in rowid order
    sqlite_sequence,  \* committed AUTOINCREMENT bookkeeping: largest rowid ever assigned
    conns,            \* the sqlite3.Connection objects made so far: "open" / "closed"
    ctx,              \* ctx['tasksdb_conn']: 0 when the key is unset, else an index of conns
    txn,              \* per connection: "none" (autocommit), "begun" (in a transaction,
                      \* no lock), "shared" (in a transaction, SHARED lock), "write"
                      \* (in a transaction, RESERVED lock: the one writer)
    pending,          \* the writer's commit was refused: it holds the PENDING lock
    uncommitted,      \* None, or the writer's own view [tasks, seq] of the database
    last,             \* the last component run: its inputs, the error raised, its out ports
    fresh,            \* per task_id: the arguments of its Create while nothing else wrote it
    issued,           \* every rowid an INSERT has been given so far
    upd,              \* per concurrent TasksUpdateTask.execute: its position, ports, row read
    given             \* the values the caller holds for TasksCreateTask (SpecCodec)

vars == <<tasks, sqlite_sequence, conns, ctx, txn, pending, uncommitted,
          last, fresh, issued, upd, given>>

None == <<>>
Some(v) == <<v>>

(***************************************************************************)
(* json.dumps (ensure_ascii, separators ', ') and json.loads on lists of   *)
(* strs.                                                                   *)
(***************************************************************************)
QUOTE == 34       \* '"'
BSLASH == 92      \* '\'
LOWER_U == 117    \* 'u'

\* The short escapes of ESCAPE_DCT / BACKSLASH: code point -> letter after '\'.
ShortEscapes == {<<8, 98>>, <<9, 116>>, <<10, 110>>, <<12, 102>>, <<13, 114>>}

\* One lower-case hexadecimal digit ('{:04x}').
HexDigit(d) == IF d < 10 THEN 48 + d ELSE 87 + d

\* '\\u{0:04x}'.format(n)
UEscape(n) ==
    <<BSLASH, LOWER_U, HexDigit(n \div 4096), HexDigit((n \div 256) % 16),
      HexDigit((n \div 16) % 16), HexDigit(n % 16)>>

\* json.dumps of one character inside a string: '"' and '\' get a backslash,
\* \b \t \n \f \r their letter, every other character outside ' '..'~' becomes
\* \uXXXX, as a surrogate pair above U+FFFF.
EscapeChar(c) ==
    IF c = QUOTE THEN <<BSLASH, QUOTE>>
    ELSE IF c = BSLASH THEN <<BSLASH, BSLASH>>
    ELSE IF c >= 32 /\ c <= 126 THEN <<c>>
    ELSE IF \E e \in ShortEscapes : e[1] = c
    THEN <<BSLASH, (CHOOSE e \in ShortEscapes : e[1] = c)[2]>>
    ELSE IF c < 65536 THEN UEscape(c)
    ELSE UEscape(55296 + (((c - 65536) \div 1024) % 1024))
            \o UEscape(56320 + ((c - 65536) % 1024))

RECURSIVE EscapeChars(_)
EscapeChars(s) ==
    IF s = <<>> THEN <<>> ELSE EscapeChar(Head(s)) \o EscapeChars(Tail(s))

\* json.dumps of a str: the escaped characters between double quotes.
DumpsStr(s) == <<QUOTE>> \o EscapeChars(s) \o <<QUOTE>>

RECURSIVE DumpsItems(_)
DumpsItems(l) ==
    IF l = <<>> THEN <<>>
    ELSE IF Len(l) = 1 THEN DumpsStr(l[1])
    ELSE DumpsStr(Head(l)) \o <<44, 32>> \o DumpsItems(Tail(l))

\* json.dumps of a list, default separators (", ").
json_dumps(l) == <<91>> \o DumpsItems(l) \o <<93>>

\* json.decoder.WHITESPACE: ' ', '\t', '\n', '\r'.
IsWs(c) == c \in {32, 9, 10, 13}

\* Index of the first non-blank character of text at or after i.
RECURSIVE SkipWs(_, _)
SkipWs(text, i) ==
    IF i <= Len(text) /\ IsWs(text[i]) THEN SkipWs(text, i + 1) ELSE i

\* The value of a hexadecimal digit, -1 for any other character.
HexVal(c) ==
    IF c >= 48 /\ c <= 57 THEN c - 48
    ELSE IF c >= 97 /\ c <= 102 THEN c - 87
    ELSE IF c >= 65 /\ c <= 70 THEN c - 55
    ELSE -1

\* The four hexadecimal digits of a \uXXXX escape at text[i..i+3], -1 when
\* they are not four hexadecimal digits.
DecodeU(text, i) ==
    IF i + 3 > Len(text) \/ \E k \in 0..3 : HexVal(text[i + k]) < 0 THEN -1
    ELSE HexVal(text[i]) * 4096 + HexVal(text[i + 1]) * 256
            + HexVal(text[i + 2]) * 16 + HexVal(text[i + 3])

ScanError == [ok |-> FALSE, val |-> <<>>, next |-> 0]

\* scanstring (strict): scan a JSON string body from i (just after the opening
\* quote); the decoded characters and the index after the closing quote, or
\* ok = FALSE where the decoder raises JSONDecodeError.
RECURSIVE ScanStr(_, _, _)
ScanStr(text, i, acc) ==
    IF i > Len(text) THEN ScanError
    ELSE IF text[i] = QUOTE THEN [ok |-> TRUE, val |-> acc, next |-> i + 1]
    ELSE IF text[i] < 32 THEN ScanError
    ELSE IF text[i] # BSLASH THEN ScanStr(text, i + 1, Append(acc, text[i]))
    ELSE IF i + 1 > Len(text) THEN ScanError
    ELSE IF text[i + 1] = LOWER_U THEN
        LET u == DecodeU(text, i + 2)
            paired == /\ u >= 55296 /\ u <= 56319
                      /\ i + 12 <= Len(text)
                      /\ text[i + 6] = BSLASH /\ text[i + 7] = LOWER_U
            u2 == DecodeU(text, i + 8)
        IN  IF u < 0 THEN ScanError
            ELSE IF ~paired THEN ScanStr(text, i + 6, Append(acc, u))
            ELSE IF u2 < 0 THEN ScanError
            ELSE IF u2 >= 56320 /\ u2 <= 57343
            THEN ScanStr(text, i + 12,
                         Append(acc, 65536 + (u - 55296) * 1024 + (u2 - 56320)))
            ELSE ScanStr(text, i + 6, Append(acc, u))
    ELSE IF text[i + 1] \in {QUOTE, BSLASH, 47}
    THEN ScanStr(text, i + 2, Append(acc, text[i + 1]))
    ELSE IF \E e \in ShortEscapes : e[2] = text[i + 1]
    THEN ScanStr(text, i + 2,
                 Append(acc, (CHOOSE e \in ShortEscapes : e[2] = text[i + 1])[1]))
    ELSE ScanError

\* JSONArray on an array of strings: scan the items from i (the place of the
\* first item); the items and the index after the closing bracket.
RECURSIVE ScanItems(_, _, _)
ScanItems(text, i, acc) ==
    IF i > Len(text) \/ text[i] # QUOTE THEN ScanError
    ELSE LET s == ScanStr(text, i + 1, <<>>)
             j == SkipWs(text, s.next)
         IN  IF ~s.ok \/ j > Len(text) THEN ScanError
             ELSE IF text[j] = 93
             THEN [ok |-> TRUE, val |-> Append(acc, s.val), next |-> j + 1]
             ELSE IF text[j] = 44
             THEN ScanItems(text, SkipWs(text, j + 1), Append(acc, s.val))
             ELSE ScanError

\* json.loads of the text of a list of strs: [ok, val]; ok = FALSE where
\* json.loads raises JSONDecodeError.
json_loads(text) ==
    LET b == SkipWs(text, 1)
        i == SkipWs(text, b + 1)
        r == IF b > Len(text) \/ text[b] # 91 \/ i > Len(text) THEN ScanError
             ELSE IF text[i] = 93 THEN [ok |-> TRUE, val |-> <<>>, next |-> i + 1]
             ELSE ScanItems(text, i, <<>>)
    IN  IF r.ok /\ SkipWs(text, r.next) > Len(text)
        THEN [ok |-> TRUE, val |-> r.val]
        ELSE [ok |-> FALSE, val |-> <<>>]

(***************************************************************************)
(* The table and the connection.                                           *)
(***************************************************************************)
\* The set of elements of a sequence.
Range(s) == {s[i] : i \in 1..Len(s)}

\* Index in rows of the row with this task_id, 0 when there is none
\* (WHERE task_id = ?).
RowIndex(rows, task_id) ==
    IF \E i \in 1..Len(rows) : rows[i].task_id = task_id
    THEN CHOOSE i \in 1..Len(rows) : rows[i].task_id = task_id
    ELSE 0

MaxRowid(rows) ==
    IF rows = <<>> THEN 0
    ELSE CHOOSE m \in {rows[i].id : i \in 1..Len(rows)} :
            \A i \in 1..Len(rows) : rows[i].id <= m

\* conn = self.connection.value if self.connection.value is not None
\*        else ctx['tasksdb_conn']        (0 stands for None)
ResolveConn(conn) == IF conn # 0 THEN conn ELSE ctx

ConnErrorLenient(conn) == IF conn = 0 /\ ctx = 0 THEN "KeyError" ELSE "none"

\* What using the resolved connection raises: KeyError when the fallback key
\* is unset, sqlite3.ProgrammingError when the connection is closed.
ConnError(conn) ==
    IF conn = 0 /\ ctx = 0 THEN "KeyError"
    ELSE IF conns[ResolveConn(conn)] = "closed" THEN "ProgrammingError"
    ELSE "none"

NoArgs == [summary |-> None, conversation |-> None, details |-> None, steps |-> None]

\* What a component run leaves behind: its in ports, the exception raised
\* ("none" when it returned) and its out ports.
Result(op, conn, task_id, args, err, out) ==
    [op |-> op, conn |-> conn, task_id |-> task_id, args |-> args, err |-> err, out |-> out]

\* The component raised before any statement ran.
Raise(op, conn, task_id, args, err) ==
    /\ last' = Result(op, conn, task_id, args, err, None)
    /\ UNCHANGED <<tasks, sqlite_sequence, conns, ctx, txn, pending, uncommitted,
                   fresh, issued, upd, given>>

\* A write on task_id ends the "just created" record of it.
Touch(task_id) == [t \in DOMAIN fresh |-> IF t = task_id THEN None ELSE fresh[t]]

(***************************************************************************)
(* The database file and its locks, as the statements of a connection see  *)
(* them.  d is the database with every connection's transaction state.     *)
(***************************************************************************)
DB ==
    [tasks |-> tasks, seq |-> sqlite_sequence, txn |-> txn, pending |-> pending,
     uncommitted |-> uncommitted]

\* The five variables of the database become d.
Apply(d) ==
    /\ tasks' = d.tasks
    /\ sqlite_sequence' = d.seq
    /\ txn' = d.txn
    /\ pending' = d.pending
    /\ uncommitted' = d.uncommitted

Committed(d) == [tasks |-> d.tasks, seq |-> d.seq]

\* What the statements of connection c read: the writer reads its own writes.
View(d, c) == IF d.txn[c] = "write" THEN d.uncommitted[1] ELSE Committed(d)

\* A SELECT needs the SHARED lock, which the PENDING lock of another connection
\* refuses (sqlite3.OperationalError: database is locked).
CanRead(d, c) == d.txn[c] \in {"write", "shared"} \/ ~d.pending

\* Inside a transaction the SHARED lock of a SELECT is kept until it ends.
AfterRead(d, c) == IF d.txn[c] = "begun" THEN [d EXCEPT !.txn[c] = "shared"] ELSE d

HasWriter(d) == \E k \in 1..Len(d.txn) : d.txn[k] = "write"

\* An INSERT, UPDATE or DELETE needs the RESERVED lock: one writer at a time.
CanReserve(d, c) == d.txn[c] = "write" \/ ~HasWriter(d)

\* The RESERVED lock was refused: the statement raises OperationalError after
\* the implicit BEGIN, which stays open.
Busy(d, c) == IF d.txn[c] = "none" THEN [d EXCEPT !.txn[c] = "begun"] ELSE d

\* The implicit BEGIN and the RESERVED lock of the first write of a transaction.
Reserve(d, c) ==
    IF d.txn[c] = "write" THEN d
    ELSE [d EXCEPT !.txn[c] = "write", !.uncommitted = Some(Committed(d))]

\* The writer's statement leaves its view as `view`.
Put(d, view) == [d EXCEPT !.uncommitted = Some(view)]

\* conn.commit() of the writer needs the EXCLUSIVE lock, which a SHARED lock of
\* another connection refuses.
CanCommit(d, c) ==
    d.txn[c] = "write" => \A k \in 1..Len(d.txn) : k # c => d.txn[k] # "shared"

\* conn.commit(): the writer's view becomes the database; every lock of c goes.
Commit(d, c) ==
    IF d.txn[c] = "write"
    THEN [d EXCEPT !.tasks = d.uncommitted[1].tasks, !.seq = d.uncommitted[1].seq,
                   !.uncommitted = None, !.pending = FALSE, !.txn[c] = "none"]
    ELSE [d EXCEPT !.txn[c] = "none"]

\* conn.commit() raised OperationalError: the writer keeps its transaction and
\* the PENDING lock.
CommitBusy(d) == [d EXCEPT !.pending = TRUE]

\* conn.close() with a transaction open: it is rolled back.
Rollback(d, c) ==
    IF d.txn[c] = "write"
    THEN [d EXCEPT !.uncommitted = None, !.pending = FALSE, !.txn[c] = "none"]
    ELSE [d EXCEPT !.txn[c] = "none"]

\* conn.commit() at the end of a component, from d.
CommitOnly(d, c, wrote) ==
    IF CanCommit(d, c) THEN [db |-> Commit(d, c), err |-> "none", wrote |-> wrote]
    ELSE [db |-> CommitBusy(d), err |-> "OperationalError", wrote |-> wrote]

\* cursor.execute(<write statement>) leaving view `view`, then conn.commit().
ExecuteAndCommit(d, c, view) ==
    IF ~CanReserve(d, c)
    THEN [db |-> Busy(d, c), err |-> "OperationalError", wrote |-> FALSE]
    ELSE CommitOnly(Put(Reserve(d, c), view), c, TRUE)

(***************************************************************************)
(* TasksOpenDB.execute                                                     *)
(***************************************************************************)
\* sqlite3.connect, CREATE TABLE IF NOT EXISTS (a read of the schema once the
\* table exists), commit; the connection goes to the out port and to ctx.
TasksOpenDB ==
    /\ Len(conns) < MaxConns
    /\ IF pending
       THEN Raise("OpenDB", 0, "", NoArgs, "OperationalError")
       ELSE /\ conns' = Append(conns, "open")
            /\ txn' = Append(txn, "none")
            /\ ctx' = Len(conns) + 1
            /\ last' = Result("OpenDB", 0, "", NoArgs, "none", Some(Len(conns) + 1))
            /\ UNCHANGED <<tasks, sqlite_sequence, pending, uncommitted,
                           fresh, issued, upd, given>>

(***************************************************************************)
(* TasksCreateTask.execute                                                 *)
(***************************************************************************)
UniqueNotEnforced(rows, task_id) == FALSE

\* task_id TEXT UNIQUE NOT NULL: the INSERT is refused when a row has the task_id.
UniqueViolated(rows, task_id) == \E i \in 1..Len(rows) : rows[i].task_id = task_id

NewRowidNoAutoincrement(rows, seq) == MaxRowid(rows) + 1

\* The rowid an INTEGER PRIMARY KEY AUTOINCREMENT column gives a new row.
NewRowid(rows, seq) ==
    (IF MaxRowid(rows) > seq THEN MaxRowid(rows) ELSE seq) + 1

\* The inserted row: the five supplied columns, the schema's DEFAULTs for the rest.
NewRow(id, task_id, summary, conversation, details, steps) ==
    [id |-> id, task_id |-> task_id, summary |-> summary,
     conversation |-> json_dumps(conversation), details |-> details,
     steps |-> json_dumps(steps),
     current_step_num |-> 0, is_active |-> 1, is_waiting |-> 0]

TasksCreateTask(conn, task_id, args) ==
    LET e == ConnError(conn)
        c == ResolveConn(conn)
        v == View(DB, c)
        id == NewRowid(v.tasks, v.seq)
        row == NewRow(id, task_id, args.summary[1], args.conversation[1],
                      args.details[1], args.steps[1])
        r == ExecuteAndCommit(DB, c, [tasks |-> Append(v.tasks, row), seq |-> id])
    IN  IF e # "none" THEN Raise("CreateTask", conn, task_id, args, e)
        ELSE IF ~CanReserve(DB, c)
        THEN /\ Apply(Busy(DB, c))
             /\ last' = Result("CreateTask", conn, task_id, args, "OperationalError", None)
             /\ UNCHANGED <<conns, ctx, fresh, issued, upd, given>>
        ELSE IF UniqueViolated(v.tasks, task_id)
        THEN /\ Apply(Reserve(DB, c))
             /\ last' = Result("CreateTask", conn, task_id, args, "IntegrityError", None)
             /\ UNCHANGED <<conns, ctx, fresh, issued, upd, given>>
        ELSE /\ v.seq < MaxId
             /\ Apply(r.db)
             /\ fresh' = [t \in DOMAIN fresh |->
                            IF t # task_id THEN fresh[t]
                            ELSE IF r.err = "none" THEN Some(args) ELSE None]
             /\ issued' = issued \cup {id}
             /\ last' = Result("CreateTask", conn, task_id, args, r.err, None)
             /\ UNCHANGED <<conns, ctx, upd, given>>

(***************************************************************************)
(* TasksGetTaskDetails.execute                                             *)
(***************************************************************************)
\* json.loads accepts both JSON columns of the row.
Decodable(row) == json_loads(row.conversation).ok /\ json_loads(row.steps).ok

\* The dictionary built from a fetched row.
RowDict(row) ==
    [task_id |-> row.task_id, summary |-> row.summary,
     conversation |-> json_loads(row.conversation).val, details |-> row.details,
     steps |-> json_loads(row.steps).val, current_step_num |-> row.current_step_num,
     is_active |-> row.is_active, is_waiting |-> row.is_waiting]

\* The eight out ports when a row was fetched.
FoundPorts(row) ==
    [task_details |-> Some(RowDict(row)), summary |-> Some(row.summary),
     conversation |-> Some(json_loads(row.conversation).val),
     details |-> Some(row.details),
     steps |-> Some(json_loads(row.steps).val),
     current_step_num |-> Some(row.current_step_num),
     is_active |-> Some(row.is_active), is_waiting |-> Some(row.is_waiting)]

\* The eight out ports when fetchone() returned None.
AbsentPorts ==
    [task_details |-> None, summary |-> None, conversation |-> None, details |-> None,
     steps |-> None, current_step_num |-> None, is_active |-> None, is_waiting |-> None]

TasksGetTaskDetails(conn, task_id) ==
    LET e == ConnError(conn)
        c == ResolveConn(conn)
        rows == View(DB, c).tasks
        i == RowIndex(rows, task_id)
    IN  IF e # "none" THEN Raise("GetTaskDetails", conn, task_id, NoArgs, e)
        ELSE IF ~CanRead(DB, c)
        THEN Raise("GetTaskDetails", conn, task_id, NoArgs, "OperationalError")
        ELSE /\ Apply(AfterRead(DB, c))
             /\ last' = IF i # 0 /\ ~Decodable(rows[i])
                        THEN Result("GetTaskDetails", conn, task_id, NoArgs,
                                    "JSONDecodeError", None)
                        ELSE Result("GetTaskDetails", conn, task_id, NoArgs, "none",
                                    IF i # 0 THEN FoundPorts(rows[i]) ELSE AbsentPorts)
             /\ UNCHANGED <<conns, ctx, fresh, issued, upd, given>>

(***************************************************************************)
(* TasksDeleteTask.execute                                                 *)
(***************************************************************************)
\* DELETE FROM tasks WHERE task_id = ?
DeleteWhere(rows, task_id) == SelectSeq(rows, LAMBDA r : r.task_id # task_id)

TasksDeleteTask(conn, task_id) ==
    LET e == ConnError(conn)
        c == ResolveConn(conn)
        v == View(DB, c)
        r == ExecuteAndCommit(DB, c, [v EXCEPT !.tasks = DeleteWhere(v.tasks, task_id)])
    IN  IF e # "none" THEN Raise("DeleteTask", conn, task_id, NoArgs, e)
        ELSE /\ Apply(r.db)
             /\ fresh' = IF r.wrote THEN Touch(task_id) ELSE fresh
             /\ last' = Result("DeleteTask", conn, task_id, NoArgs, r.err, None)
             /\ UNCHANGED <<conns, ctx, issued, upd, given>>

(***************************************************************************)
(* TasksUpdateTask.execute                                                 *)
(***************************************************************************)
MergedRowTruthy(row, args) ==
    [row EXCEPT
        !.summary = IF args.summary \notin {None, Some("")} THEN args.summary[1]
                    ELSE row.summary,
        !.conversation = json_dumps(IF args.conversation \notin {None, Some(<<>>)}
                                    THEN args.conversation[1]
                                    ELSE json_loads(row.conversation).val),
        !.details = IF args.details \notin {None, Some("")} THEN args.details[1]
                    ELSE row.details,
        !.steps = json_dumps(IF args.steps \notin {None, Some(<<>>)} THEN args.steps[1]
                             ELSE json_loads(row.steps).val)]

\* json.loads accepts each JSON column whose port is None (the others are not
\* decoded).
MergeDecodable(row, args) ==
    /\ args.conversation = None => json_loads(row.conversation).ok
    /\ args.steps = None => json_loads(row.steps).ok

\* The four values written back: the supplied one when it is not None, else
\* the one read from the row (the JSON columns decoded, then encoded again).
MergedRow(row, args) ==
    [row EXCEPT
        !.summary = IF args.summary # None THEN args.summary[1] ELSE row.summary,
        !.conversation = json_dumps(IF args.conversation # None THEN args.conversation[1]
                                    ELSE json_loads(row.conversation).val),
        !.details = IF args.details # None THEN args.details[1] ELSE row.details,
        !.steps = json_dumps(IF args.steps # None THEN args.steps[1]
                             ELSE json_loads(row.steps).val)]

\* UPDATE tasks SET summary = ?, conversation = ?, details = ?, steps = ?
\* WHERE task_id = ?, with the four values of `merged`.
UpdateWhere(rows, task_id, merged) ==
    [i \in 1..Len(rows) |->
        IF rows[i].task_id = task_id
        THEN [rows[i] EXCEPT !.summary = merged.summary,
                             !.conversation = merged.conversation,
                             !.details = merged.details,
                             !.steps = merged.steps]
        ELSE rows[i]]

TasksUpdateTask(conn, task_id, args) ==
    LET e == ConnError(conn)
        c == ResolveConn(conn)
        v == View(DB, c)
        i == RowIndex(v.tasks, task_id)
        d == AfterRead(DB, c)
        r == IF i = 0 THEN CommitOnly(d, c, FALSE)
             ELSE ExecuteAndCommit(d, c,
                    [v EXCEPT !.tasks = UpdateWhere(v.tasks, task_id,
                                                    MergedRow(v.tasks[i], args))])
    IN  IF e # "none" THEN Raise("UpdateTask", conn, task_id, args, e)
        ELSE IF ~CanRead(DB, c)
        THEN Raise("UpdateTask", conn, task_id, args, "OperationalError")
        ELSE IF i # 0 /\ ~MergeDecodable(v.tasks[i], args)
        THEN /\ Apply(d)
             /\ last' = Result("UpdateTask", conn, task_id, args, "JSONDecodeError", None)
             /\ UNCHANGED <<conns, ctx, fresh, issued, upd, given>>
        ELSE /\ Apply(r.db)
             /\ fresh' = IF r.wrote THEN Touch(task_id) ELSE fresh
             /\ last' = Result("UpdateTask", conn, task_id, args, r.err, None)
             /\ UNCHANGED <<conns, ctx, issued, upd, given>>

(***************************************************************************)
(* TasksListActiveTasks.execute                                            *)
(***************************************************************************)
ActiveDictsNotWaiting(rows) ==
    LET sel == SelectSeq(rows, LAMBDA r : r.is_waiting = 0)
    IN  [i \in 1..Len(sel) |-> RowDict(sel[i])]

\* SELECT ... FROM tasks WHERE is_active = 1, each row as a dictionary.
ActiveDicts(rows) ==
    LET sel == SelectSeq(rows, LAMBDA r : r.is_active = 1)
    IN  [i \in 1..Len(sel) |-> RowDict(sel[i])]

TasksListActiveTasks(conn) ==
    LET e == ConnError(conn)
        c == ResolveConn(conn)
        rows == View(DB, c).tasks
    IN  IF e # "none" THEN Raise("ListActiveTasks", conn, "", NoArgs, e)
        ELSE IF ~CanRead(DB, c)
        THEN Raise("ListActiveTasks", conn, "", NoArgs, "OperationalError")
        ELSE /\ Apply(AfterRead(DB, c))
             /\ last' = IF \E r \in Range(rows) : r.is_active = 1 /\ ~Decodable(r)
                        THEN Result("ListActiveTasks", conn, "", NoArgs,
                                    "JSONDecodeError", None)
                        ELSE Result("ListActiveTasks", conn, "", NoArgs, "none",
                                    [active_tasks |-> ActiveDicts(rows)])
             /\ UNCHANGED <<conns, ctx, fresh, issued, upd, given>>

(***************************************************************************)
(* TasksCompleteTask / TasksDeferTask / TasksResumeTask .execute           *)
(***************************************************************************)
SetInactiveClearsWaiting(rows, task_id) ==
    [i \in 1..Len(rows) |->
        IF rows[i].task_id = task_id
        THEN [rows[i] EXCEPT !.is_active = 0, !.is_waiting = 0]
        ELSE rows[i]]

\* UPDATE tasks SET is_active = 0 WHERE task_id = ?
SetInactive(rows, task_id) ==
    [i \in 1..Len(rows) |->
        IF rows[i].task_id = task_id THEN [rows[i] EXCEPT !.is_active = 0] ELSE rows[i]]

SetWaitingEveryRow(rows, task_id, v) ==
    [i \in 1..Len(rows) |-> [rows[i] EXCEPT !.is_waiting = v]]

\* UPDATE tasks SET is_waiting = v WHERE task_id = ?
SetWaiting(rows, task_id, v) ==
    [i \in 1..Len(rows) |->
        IF rows[i].task_id = task_id THEN [rows[i] EXCEPT !.is_waiting = v] ELSE rows[i]]

TasksCompleteTask(conn, task_id) ==
    LET e == ConnError(conn)
        c == ResolveConn(conn)
        v == View(DB, c)
        r == ExecuteAndCommit(DB, c, [v EXCEPT !.tasks = SetInactive(v.tasks, task_id)])
    IN  IF e # "none" THEN Raise("CompleteTask", conn, task_id, NoArgs, e)
        ELSE /\ Apply(r.db)
             /\ fresh' = IF r.wrote THEN Touch(task_id) ELSE fresh
             /\ last' = Result("CompleteTask", conn, task_id, NoArgs, r.err, None)
             /\ UNCHANGED <<conns, ctx, issued, upd, given>>

TasksDeferTask(conn, task_id) ==
    LET e == ConnError(conn)
        c == ResolveConn(conn)
        v == View(DB, c)
        r == ExecuteAndCommit(DB, c, [v EXCEPT !.tasks = SetWaiting(v.tasks, task_id, 1)])
    IN  IF e # "none" THEN Raise("DeferTask", conn, task_id, NoArgs, e)
        ELSE /\ Apply(r.db)
             /\ fresh' = IF r.wrote THEN Touch(task_id) ELSE fresh
             /\ last' = Result("DeferTask", conn, task_id, NoArgs, r.err, None)
             /\ UNCHANGED <<conns, ctx, issued, upd, given>>

TasksResumeTask(conn, task_id) ==
    LET e == ConnError(conn)
        c == ResolveConn(conn)
        v == View(DB, c)
        r == ExecuteAndCommit(DB, c, [v EXCEPT !.tasks = SetWaiting(v.tasks, task_id, 0)])
    IN  IF e # "none" THEN Raise("ResumeTask", conn, task_id, NoArgs, e)
        ELSE /\ Apply(r.db)
             /\ fresh' = IF r.wrote THEN Touch(task_id) ELSE fresh
             /\ last' = Result("ResumeTask", conn, task_id, NoArgs, r.err, None)
             /\ UNCHANGED <<conns, ctx, issued, upd, given>>

(***************************************************************************)
(* TasksCloseDB.execute                                                    *)
(***************************************************************************)
TasksCloseDB(conn) ==
    LET c == ResolveConn(conn)
    IN  IF conn = 0 /\ ctx = 0 THEN Raise("CloseDB", conn, "", NoArgs, "KeyError")
        ELSE /\ conns' = [conns EXCEPT ![c] = "closed"]
             /\ Apply(Rollback(DB, c))
             /\ last' = Result("CloseDB", conn, "", NoArgs, "none", None)
             /\ UNCHANGED <<ctx, fresh, issued, upd, given>>
(***************************************************************************)
(* The sequential caller: one component runs at a time.  Each action draws *)
(* the component's in ports from the sets it is given.                     *)
(***************************************************************************)
TaskIds == {"", "t1"}
Summaries == {"", "s1"}
DetailTexts == {"", "d1"}

Args(summary, conversation, details, steps) ==
    [summary |-> Some(summary), conversation |-> Some(conversation),
     details |-> Some(details), steps |-> Some(steps)]

EmptyArgs == Args("", <<>>, "", <<>>)
\* summary 's1', conversation ['hi'], details 'd1', steps ['go', 'a"\']
FullArgs == Args("s1", << <<104, 105>> >>, "d1", << <<103, 111>>, <<97, QUOTE, BSLASH>> >>)

\* The in ports task_id and summary, conversation, details, steps of
\* TasksCreateTask.
CreateInputs ==
    {<<"t1", EmptyArgs>>, <<"t1", FullArgs>>, <<"", FullArgs>>}

OnePort(name, v) == [NoArgs EXCEPT ![name] = Some(v)]

\* The optional ports of TasksUpdateTask: nothing supplied, all four supplied
\* (empty or non-empty values), or one port supplied (an empty or a non-empty
\* string, a non-empty or an empty list).
UpdateArgs ==
    {NoArgs, EmptyArgs, FullArgs}
    \cup {OnePort("summary", v) : v \in Summaries}
    \cup {OnePort("details", v) : v \in DetailTexts}
    \cup {OnePort("conversation", << <<104, 105>> >>), OnePort("steps", <<>>)}

UpdateInputs ==
    {<<"t1", a>> : a \in UpdateArgs} \cup {<<"", OnePort("summary", "s1")>>}

Idle == [p \in {1, 2} |-> [pc |-> "idle", task_id |-> "", args |-> NoArgs, row |-> None]]

\* Before any component ran.
Init ==
    /\ tasks = <<>>
    /\ sqlite_sequence = 0
    /\ conns = <<>>
    /\ ctx = 0
    /\ last = Result("none", 0, "", NoArgs, "none", None)
    /\ fresh = [t \in TaskIds |-> None]
    /\ issued = {}
    /\ upd = Idle
    /\ txn = <<>>
    /\ pending = FALSE
    /\ uncommitted = None
    /\ given = NoArgs

\* After one TasksOpenDB on a new database file.
InitOpened ==
    /\ tasks = <<>>
    /\ sqlite_sequence = 0
    /\ conns = <<"open">>
    /\ ctx = 1
    /\ last = Result("OpenDB", 0, "", NoArgs, "none", Some(1))
    /\ fresh = [t \in TaskIds |-> None]
    /\ issued = {}
    /\ upd = Idle
    /\ txn = <<"none">>
    /\ pending = FALSE
    /\ uncommitted = None
    /\ given = NoArgs

Create(P, I) == \E conn \in P, in \in I : TasksCreateTask(conn, in[1], in[2])

GetDetails(P, T) == \E conn \in P, task_id \in T : TasksGetTaskDetails(conn, task_id)

Delete(P, T) == \E conn \in P, task_id \in T : TasksDeleteTask(conn, task_id)

Update(P, I) == \E conn \in P, in \in I : TasksUpdateTask(conn, in[1], in[2])

ListActive(P) == \E conn \in P : TasksListActiveTasks(conn)

Complete(P, T) == \E conn \in P, task_id \in T : TasksCompleteTask(conn, task_id)

Defer(P, T) == \E conn \in P, task_id \in T : TasksDeferTask(conn, task_id)

Resume(P, T) == \E conn \in P, task_id \in T : TasksResumeTask(conn, task_id)

Close(P) == \E conn \in P : TasksCloseDB(conn)

\* The connection port: None (0) or a connection object made earlier.
Ports == 0..Len(conns)

(***************************************************************************)
(* Spec: the eight task components on an opened store.                     *)
(***************************************************************************)
Next ==
    \/ Create(Ports, CreateInputs)
    \/ GetDetails(Ports, TaskIds)
    \/ Delete(Ports, TaskIds)
    \/ Update(Ports, UpdateInputs)
    \/ ListActive(Ports)
    \/ Complete(Ports, TaskIds)
    \/ Defer(Ports, TaskIds)
    \/ Resume(Ports, TaskIds)

Spec == InitOpened /\ [][Next]_vars

(***************************************************************************)
(* SpecCodec: create, read and delete a task whose conversation or steps   *)
(* is a list of one string of at most MaxStrLen characters, or a list of   *)
(* at most MaxListLen strings of at most one character.  The characters    *)
(* are a letter, the ones json.dumps escapes ('"', '\', newline), the      *)
(* separator ',', a non-ASCII character and the two halves of a surrogate  *)
(* pair, which a Python str may hold on their own.                         *)
(***************************************************************************)
Alphabet == {97, QUOTE, BSLASH, 44, 10, 233, 55357, 56832}

RECURSIVE SeqsUpTo(_, _)
SeqsUpTo(S, n) ==
    IF n = 0 THEN {<<>>}
    ELSE LET shorter == SeqsUpTo(S, n - 1)
         IN  shorter \cup {Append(q, x) : q \in {r \in shorter : Len(r) = n - 1}, x \in S}

Strs == SeqsUpTo(Alphabet, MaxStrLen)
Lists == {<<s>> : s \in Strs} \cup SeqsUpTo(SeqsUpTo(Alphabet, 1), MaxListLen)

CodecArgs ==
    {Args("s1", l, "d1", <<>>) : l \in Lists}
    \cup {Args("", << <<104, 105>> >>, "", l) : l \in Lists}

\* After one TasksOpenDB on a new database file, the caller holding the values
\* of a task to create.
InitCodec ==
    /\ tasks = <<>>
    /\ sqlite_sequence = 0
    /\ conns = <<"open">>
    /\ ctx = 1
    /\ txn = <<"none">>
    /\ pending = FALSE
    /\ uncommitted = None
    /\ last = Result("OpenDB", 0, "", NoArgs, "none", Some(1))
    /\ fresh = [t \in TaskIds |-> None]
    /\ issued = {}
    /\ upd = Idle
    /\ given \in CodecArgs

NextCodec ==
    \/ Create(Ports, {<<"t1", given>>})
    \/ GetDetails(Ports, {"t1"})
    \/ Delete(Ports, {"t1"})

SpecCodec == InitCodec /\ [][NextCodec]_vars

(***************************************************************************)
(* SpecConn: the connections' life.  The store is opened, used, closed and *)
(* opened again, a second connection being opened whether or not the first *)
(* is closed; every component is run with the connection port unset or set *)
(* to any connection made so far.                                          *)
(***************************************************************************)
ConnCreateInputs == {<<"t1", FullArgs>>}
ConnUpdateInputs == {<<"t1", NoArgs>>}

NextConn ==
    \/ TasksOpenDB
    \/ Create(Ports, ConnCreateInputs)
    \/ GetDetails(Ports, {"t1"})
    \/ Delete(Ports, {"t1"})
    \/ Update(Ports, ConnUpdateInputs)
    \/ ListActive(Ports)
    \/ Complete(Ports, {"t1"})
    \/ Defer(Ports, {"t1"})
    \/ Resume(Ports, {"t1"})
    \/ Close(Ports)

SpecConn == Init /\ [][NextConn]_vars

(***************************************************************************)
(* SpecConc: two TasksUpdateTask.execute run at once, updater p on         *)
(* connection p to the same database file.  The statements of one may run  *)
(* between those of the other: the SELECT reads the committed table, the   *)
(* UPDATE takes the RESERVED lock (SQLite allows one writer) and commit    *)
(* publishes the write and frees the lock.                                 *)
(***************************************************************************)
Updaters == {1, 2}

\* Two connections are open and task "t1" has been created.
InitConc ==
    \E a \in {EmptyArgs, FullArgs} :
        /\ tasks = <<NewRow(1, "t1", a.summary[1], a.conversation[1],
                            a.details[1], a.steps[1])>>
        /\ sqlite_sequence = 1
        /\ conns = <<"open", "open">>
        /\ ctx = 2
        /\ txn = <<"none", "none">>
        /\ pending = FALSE
        /\ uncommitted = None
        /\ last = Result("CreateTask", 0, "t1", a, "none", None)
        /\ fresh = [t \in TaskIds |-> IF t = "t1" THEN Some(a) ELSE None]
        /\ issued = {1}
        /\ upd = Idle
        /\ given = NoArgs

\* cursor.execute('SELECT ...'); row = cursor.fetchone()
UpdateSelect(p, task_id, args) ==
    LET rows == View(DB, p).tasks
        i == RowIndex(rows, task_id)
    IN  /\ upd[p].pc = "idle"
        /\ CanRead(DB, p)
        /\ Apply(AfterRead(DB, p))
        /\ upd' = [upd EXCEPT ![p] =
                    [pc |-> IF i # 0 THEN "update" ELSE "commit",
                     task_id |-> task_id, args |-> args,
                     row |-> IF i # 0 THEN Some(rows[i]) ELSE None]]
        /\ UNCHANGED <<conns, ctx, last, fresh, issued, given>>

\* if row: ...; cursor.execute('UPDATE ...') with the RESERVED lock granted.
UpdateWrite(p) ==
    LET d == Reserve(DB, p)
        v == View(d, p)
        merged == MergedRow(upd[p].row[1], upd[p].args)
    IN  /\ upd[p].pc = "update"
        /\ CanReserve(DB, p)
        /\ Apply(Put(d, [v EXCEPT !.tasks = UpdateWhere(v.tasks, upd[p].task_id, merged)]))
        /\ upd' = [upd EXCEPT ![p].pc = "commit", ![p].row = Some(merged)]
        /\ UNCHANGED <<conns, ctx, last, fresh, issued, given>>

\* The RESERVED lock stayed taken for the whole busy timeout: the UPDATE raises
\* sqlite3.OperationalError (database is locked).
UpdateLocked(p) ==
    /\ upd[p].pc = "update"
    /\ ~CanReserve(DB, p)
    /\ Apply(Busy(DB, p))
    /\ upd' = [upd EXCEPT ![p].pc = "raised"]
    /\ UNCHANGED <<conns, ctx, last, fresh, issued, given>>

\* conn.commit()
UpdateCommit(p) ==
    LET r == CommitOnly(DB, p, txn[p] = "write")
    IN  /\ upd[p].pc = "commit"
        /\ Apply(r.db)
        /\ upd' = [upd EXCEPT ![p].pc = IF r.err = "none" THEN "done" ELSE "raised"]
        /\ fresh' = IF r.wrote /\ r.err = "none" THEN Touch(upd[p].task_id) ELSE fresh
        /\ UNCHANGED <<conns, ctx, last, issued, given>>

ConcSelect == \E p \in Updaters, in \in UpdateInputs : UpdateSelect(p, in[1], in[2])
ConcWrite == \E p \in Updaters : UpdateWrite(p)
ConcLocked == \E p \in Updaters : UpdateLocked(p)
ConcCommit == \E p \in Updaters : UpdateCommit(p)

NextConc == ConcSelect \/ ConcWrite \/ ConcLocked \/ ConcCommit

SpecConc == InitConc /\ [][NextConc]_vars

(***************************************************************************)
(* Properties of Spec.                                                     *)
(***************************************************************************)
HasRow(rows, t) == \E i \in 1..Len(rows) : rows[i].task_id = t

TheRow(rows, t) == CHOOSE r \in Range(rows) : r.task_id = t

\* Every row of `rows` whose task_id is not t is, at the same place, in `rows2`.
OthersKept(rows, rows2, t) ==
    /\ Len(rows2) = Len(rows)
    /\ \A i \in 1..Len(rows) : rows[i].task_id # t => rows2[i] = rows[i]

StoreUnchanged == tasks' = tasks /\ sqlite_sequence' = sqlite_sequence

Defaults(r) == r.current_step_num = 0 /\ r.is_active = 1 /\ r.is_waiting = 0

UniqueTaskIds ==
    \A i, j \in 1..Len(tasks) : tasks[i].task_id = tasks[j].task_id => i = j

\* The step is a run of component op.
Ran(op) == last'.op = op

\* C1: TasksCreateTask on a task_id that already has a row raises the UNIQUE
\* constraint's IntegrityError and leaves the table as it was (the row keeps every
\* value, no second row appears, no other row changes); so no two rows ever
\* share a task_id.
C1_DuplicateCreateRejected ==
    /\ [][(Ran("CreateTask") /\ HasRow(tasks, last'.task_id))
            => (last'.err = "IntegrityError" /\ StoreUnchanged)]_vars
    /\ []UniqueTaskIds

\* A TasksCreateTask with other values than the stored ones has just been
\* refused, the row being completed and another row existing too.
C1_Witness ==
    /\ last.op = "CreateTask" /\ last.err = "IntegrityError"
    /\ Len(tasks) = 2 /\ HasRow(tasks, last.task_id)
    /\ TheRow(tasks, last.task_id).summary # last.args.summary[1]
    /\ TheRow(tasks, last.task_id).is_active = 0

\* C2: TasksUpdateTask on an existing task keeps the stored value of every port
\* left None, stores the supplied value of every other port (an empty string or
\* list included), changes nothing when all four are None, and never changes
\* id, task_id, current_step_num, is_active, is_waiting or another row.
C2_UpdateMerges ==
    [][(Ran("UpdateTask") /\ HasRow(tasks, last'.task_id)) =>
            LET t == last'.task_id
                a == last'.args
                old == TheRow(tasks, t)
                new == TheRow(tasks', t)
            IN  /\ last'.err = "none"
                /\ HasRow(tasks', t)
                /\ OthersKept(tasks, tasks', t)
                /\ sqlite_sequence' = sqlite_sequence
                /\ new.summary = IF a.summary = None THEN old.summary ELSE a.summary[1]
                /\ new.details = IF a.details = None THEN old.details ELSE a.details[1]
                /\ IF a.conversation = None THEN new.conversation = old.conversation
                   ELSE new.conversation = json_dumps(a.conversation[1])
                /\ IF a.steps = None THEN new.steps = old.steps
                   ELSE new.steps = json_dumps(a.steps[1])
                /\ new.id = old.id
                /\ new.task_id = old.task_id
                /\ new.current_step_num = old.current_step_num
                /\ new.is_active = old.is_active
                /\ new.is_waiting = old.is_waiting
                /\ a = NoArgs => tasks' = tasks]_vars

\* An update supplying only an empty summary has run on a completed, waiting
\* task that keeps its non-empty steps, next to another row.
C2_Witness ==
    /\ last.op = "UpdateTask" /\ last.err = "none"
    /\ last.args = OnePort("summary", "")
    /\ Len(tasks) = 2 /\ HasRow(tasks, last.task_id)
    /\ TheRow(tasks, last.task_id).summary = ""
    /\ TheRow(tasks, last.task_id).details = "d1"
    /\ TheRow(tasks, last.task_id).steps # json_dumps(<<>>)
    /\ TheRow(tasks, last.task_id).is_active = 0
    /\ TheRow(tasks, last.task_id).is_waiting = 1

AllAbsent(out) ==
    /\ DOMAIN out = {"task_details", "summary", "conversation", "details", "steps",
                     "current_step_num", "is_active", "is_waiting"}
    /\ \A port \in DOMAIN out : out[port] = None

\* C3: on a task_id that has no row, TasksDeleteTask, TasksCompleteTask,
\* TasksDeferTask, TasksResumeTask and TasksUpdateTask (any ports) return
\* without raising and leave the table as it was, and TasksGetTaskDetails sets
\* every out port to None.
C3_MissingIdIsNoOp ==
    [][~HasRow(tasks, last'.task_id) =>
            /\ (\/ Ran("DeleteTask") \/ Ran("CompleteTask") \/ Ran("DeferTask")
                \/ Ran("ResumeTask") \/ Ran("UpdateTask"))
                    => (last'.err = "none" /\ StoreUnchanged)
            /\ Ran("GetTaskDetails")
                    => (last'.err = "none" /\ AllAbsent(last'.out) /\ StoreUnchanged)]_vars

\* TasksGetTaskDetails has just run on a task_id without a row, next to an existing row.
C3_Witness ==
    /\ last.op = "GetTaskDetails" /\ last.err = "none"
    /\ ~HasRow(tasks, last.task_id) /\ Len(tasks) = 1
    /\ last.out.task_details = None

\* The dictionary d carries the values stored in row r.
Carries(d, r) ==
    /\ d.task_id = r.task_id
    /\ d.summary = r.summary
    /\ json_dumps(d.conversation) = r.conversation
    /\ d.details = r.details
    /\ json_dumps(d.steps) = r.steps
    /\ d.current_step_num = r.current_step_num
    /\ d.is_active = r.is_active
    /\ d.is_waiting = r.is_waiting

\* C4: TasksListActiveTasks returns one dictionary for each row whose is_active
\* is 1, carrying that row's stored values, and none for any other row; it
\* changes no row.
C4_ListActiveExact ==
    /\ []((last.op = "ListActiveTasks" /\ last.err = "none") =>
            LET out == last.out.active_tasks
            IN  /\ \A r \in Range(tasks) :
                    Cardinality({k \in 1..Len(out) : out[k].task_id = r.task_id})
                        = IF r.is_active = 1 THEN 1 ELSE 0
                /\ \A k \in 1..Len(out) :
                    \E r \in Range(tasks) : r.is_active = 1 /\ Carries(out[k], r))
    /\ [][Ran("ListActiveTasks") => StoreUnchanged]_vars

\* The list has just been taken with one completed row left out and one active,
\* waiting row returned.
C4_Witness ==
    /\ last.op = "ListActiveTasks" /\ last.err = "none"
    /\ Len(tasks) = 2 /\ Len(last.out.active_tasks) = 1
    /\ \E r \in Range(tasks) : r.is_active = 0
    /\ \E r \in Range(tasks) : r.is_active = 1 /\ r.is_waiting = 1

\* C5: TasksCompleteTask only sets is_active to 0, TasksDeferTask only sets
\* is_waiting to 1, TasksResumeTask only sets is_waiting to 0: the other flag,
\* the other columns and the other rows stay, so a task can be inactive and
\* waiting at once, whichever of Defer and Complete ran first.
C5_FlagsIndependent ==
    [][HasRow(tasks, last'.task_id) =>
            LET t == last'.task_id
                old == TheRow(tasks, t)
                new == TheRow(tasks', t)
            IN  /\ Ran("CompleteTask") =>
                    /\ HasRow(tasks', t) /\ OthersKept(tasks, tasks', t)
                    /\ new = [old EXCEPT !.is_active = 0]
                /\ Ran("DeferTask") =>
                    /\ HasRow(tasks', t) /\ OthersKept(tasks, tasks', t)
                    /\ new = [old EXCEPT !.is_waiting = 1]
                /\ Ran("ResumeTask") =>
                    /\ HasRow(tasks', t) /\ OthersKept(tasks, tasks', t)
                    /\ new = [old EXCEPT !.is_waiting = 0]]_vars

\* TasksCompleteTask has just run on a deferred task: inactive and waiting at once.
C5_Witness ==
    /\ last.op = "CompleteTask" /\ last.err = "none"
    /\ HasRow(tasks, last.task_id)
    /\ TheRow(tasks, last.task_id).is_active = 0
    /\ TheRow(tasks, last.task_id).is_waiting = 1

\* C7: TasksCreateTask with an empty summary or an empty task_id fails with a
\* validation error and inserts nothing, so no row has an empty summary or an
\* empty task_id.
C7_EmptyRejected ==
    /\ \A r \in Range(tasks) : r.task_id # "" /\ r.summary # ""
    /\ (last.op = "CreateTask" /\ (last.task_id = "" \/ last.args.summary = Some("")))
            => last.err = "ValidationError"

\* C9: TasksDeleteTask removes the row of its task_id and no other; a task_id
\* gets a row (again) only by TasksCreateTask, and that row has a rowid above
\* every rowid given before, the creation defaults, and the created values.
C9_DeleteAndFreshIds ==
    [][/\ Ran("DeleteTask") =>
            /\ last'.err = "none"
            /\ ~HasRow(tasks', last'.task_id)
            /\ Range(tasks') = {r \in Range(tasks) : r.task_id # last'.task_id}
            /\ Len(tasks') = Cardinality({r \in Range(tasks) : r.task_id # last'.task_id})
       /\ \A t \in TaskIds :
            (~HasRow(tasks, t) /\ HasRow(tasks', t)) =>
                LET new == TheRow(tasks', t)
                    a == last'.args
                IN  /\ last'.op = "CreateTask" /\ last'.task_id = t /\ last'.err = "none"
                    /\ \A i \in issued : new.id > i
                    /\ \A r \in Range(tasks) : new.id > r.id
                    /\ OthersKept(tasks, SubSeq(tasks', 1, Len(tasks)), t)
                    /\ Defaults(new)
                    /\ new.summary = a.summary[1]
                    /\ new.details = a.details[1]
                    /\ new.conversation = json_dumps(a.conversation[1])
                    /\ new.steps = json_dumps(a.steps[1])]_vars

\* The only row, rowid 1, was deleted and a task has just been created on the
\* emptied table: its row has rowid 2.
C9_Witness ==
    /\ last.op = "CreateTask" /\ last.err = "none"
    /\ Len(tasks) = 1 /\ tasks[1].id = 2 /\ issued = {1, 2}

(***************************************************************************)
(* Properties of SpecCodec, SpecConn and SpecConc.                         *)
(***************************************************************************)
\* C6: TasksGetTaskDetails on a task that was created and not written since
\* returns the summary, conversation, details and steps given to
\* TasksCreateTask, with current_step_num 0, is_active 1 and is_waiting 0, in
\* the ports and in the task_details dictionary; it changes no row.
C6_CreateThenGet ==
    /\ []((last.op = "GetTaskDetails" /\ last.err = "none"
           /\ fresh[last.task_id] # None) =>
            LET a == fresh[last.task_id][1]
                o == last.out
            IN  /\ o.summary = a.summary
                /\ o.conversation = a.conversation
                /\ o.details = a.details
                /\ o.steps = a.steps
                /\ o.current_step_num = Some(0)
                /\ o.is_active = Some(1)
                /\ o.is_waiting = Some(0)
                /\ o.task_details =
                    Some([task_id |-> last.task_id, summary |-> a.summary[1],
                          conversation |-> a.conversation[1], details |-> a.details[1],
                          steps |-> a.steps[1], current_step_num |-> 0,
                          is_active |-> 1, is_waiting |-> 0]))
    /\ [][Ran("GetTaskDetails") => StoreUnchanged]_vars

TaskOps ==
    {"CreateTask", "GetTaskDetails", "UpdateTask", "DeleteTask", "ListActiveTasks",
     "CompleteTask", "DeferTask", "ResumeTask"}

\* The connection a component given port c would use has been closed.
UsesClosed(c) ==
    IF c = 0 THEN ctx # 0 /\ conns[ctx] = "closed" ELSE conns[c] = "closed"

\* C8: once a connection is closed, each of the eight task components run on
\* it, given it as its connection port or finding it under
\* ctx['tasksdb_conn'], raises sqlite3.ProgrammingError and changes no row.
C8_ClosedConnectionFails ==
    [][(last'.op \in TaskOps /\ UsesClosed(last'.conn))
            => (last'.err = "ProgrammingError" /\ StoreUnchanged)]_vars

\* A component with its connection port unset has just raised on the closed
\* connection that ctx still names, the table holding a row.
C8_Witness ==
    /\ last.op \in TaskOps /\ last.err = "ProgrammingError" /\ last.conn = 0
    /\ tasks # <<>>

\* C10: when one update of a task supplies only the summary and another, run at
\* the same time on a second connection, only the details, the row has both new
\* values once both have returned.
C10_NoLostUpdate ==
    \A S \in Summaries, D \in DetailTexts :
        (/\ upd[1].pc = "done" /\ upd[1].task_id = "t1"
         /\ upd[1].args = OnePort("summary", S)
         /\ upd[2].pc = "done" /\ upd[2].task_id = "t1"
         /\ upd[2].args = OnePort("details", D))
            => (TheRow(tasks, "t1").summary = S /\ TheRow(tasks, "t1").details = D)

====
